---- MODULE Spec2Model ----
(***************************************************************************)
(* Model of webotron: BucketManager (01-webotron/webotron/bucket.py) and   *)
(* the click command line (01-webotron/webotron/webotron.py).              *)
(*                                                                         *)
(* Three specifications share the module:                                  *)
(*   Spec       - BucketManager.sync and the CLI `sync` command against a   *)
(*                local tree and an object store;                          *)
(*   SpecHash   - BucketManager.gen_etag applied to bounded files;         *)
(*   SpecBucket - BucketManager.init_bucket / set_policy /                 *)
(*                configure_website and the CLI `setup-bucket` command.    *)
(*                                                                         *)
(* Text is modelled as a sequence of character codes (an ETag), or as a    *)
(* sequence of path components joined by the host separator (a key).       *)
(***************************************************************************)
EXTENDS Integers, Sequences, FiniteSets, TLC

VARIABLES
    \* ---- the host and the object store (Spec)
    sep,        \* os.sep of the host the program runs on
    fs,         \* the local tree under the resolved root: path -> node
    store,      \* the object store: bucket name -> (key -> object)
    \* ---- the BucketManager object and the running command (Spec)
    manifest,   \* self.manifest: key -> ETag
    pc,         \* "idle" | "walking" (BucketManager.sync) | "cli_walking"
    bucket,     \* the bucket of the running / last sync
    stack,      \* handle_directory's recursion: frames of entries to iterate
    log,        \* upload_file invocations of the running / last sync
    visits,     \* per path, how often upload_file was invoked for it
    outcome,    \* how the last command ended: "none" | "returned" | "raised"
    ops,        \* commands started and changes made by other clients so far
    touched,    \* another client changed the store since the last sync began
    resync,     \* the running / last sync repeats a completed, undisturbed one
    cmd,        \* the running / last sync command: "none" | "lib" | "cli"
    \* ---- gen_etag on its own (SpecHash)
    hfile,      \* the bytes of the file at `path`
    hret,       \* what gen_etag returned
    hpc,        \* "ready" | "done"
    \* ---- bucket lifecycle (SpecBucket)
    owned,      \* the buckets the caller owns
    policy,     \* the buckets carrying the public-read policy
    website,    \* the buckets with website hosting enabled
    ret         \* the last lifecycle call and how it ended

syncVars   == <<sep, fs, store, manifest, pc, bucket, stack, log, visits,
                outcome, ops, touched, resync, cmd>>
hashVars   == <<hfile, hret, hpc>>
bucketVars == <<owned, policy, website, ret>>
vars       == <<syncVars, hashVars, bucketVars>>

----------------------------------------------------------------------------
(* Bounds of the model. *)

\* longest file gen_etag is applied to in SpecHash
MaxLen == 5
\* sync commands and changes by other clients in one behaviour of Spec
MaxOps == 3

\* BucketManager.CHUNK_SIZE, scaled from 8388608 bytes to 2 so that bounded
\* files span one, two and three chunks.
CHUNK_SIZE == 2

\* Python's None
None == <<-1>>

Byte == 0 .. 1

RECURSIVE SeqsUpTo(_, _)
SeqsUpTo(S, n) ==
    IF n = 0 THEN {<<>>}
    ELSE LET shorter == SeqsUpTo(S, n - 1)
         IN  shorter \cup {Append(s, x) : s \in shorter, x \in S}

Min(a, b) == IF a <= b THEN a ELSE b

----------------------------------------------------------------------------
(* hashlib.md5, str formatting *)

\* md5 as an injective function from byte strings to digests: the digest of
\* s is s between two marks that are no data bytes, so that a concatenation
\* of digests decodes uniquely.
md5(data) == <<2>> \o data \o <<3>>

\* hash_data(data): an md5 object fed with data; the object is modelled by
\* its digest() bytes.
hash_data(data) == md5(data)

digest(h) == h

\* one hexadecimal digit as a character code: 0-9 -> '0'..'9', 10-15 -> 'a'..'f'
HexChar(n) == IF n < 10 THEN 48 + n ELSE 87 + n

RECURSIVE hexdigest(_)
hexdigest(h) ==
    IF h = <<>> THEN <<>>
    ELSE <<HexChar(Head(h) \div 16), HexChar(Head(h) % 16)>> \o hexdigest(Tail(h))

\* str(n) for n >= 0, as character codes
RECURSIVE Str(_)
Str(n) == IF n < 10 THEN <<48 + n>> ELSE Str(n \div 10) \o <<48 + (n % 10)>>

\* F'"{text}"'
Quoted(text) == <<34>> \o text \o <<34>>

\* reduce(lambda x, y: x + y, seq-of-bytes)
RECURSIVE Concat(_)
Concat(ss) == IF ss = <<>> THEN <<>> ELSE Head(ss) \o Concat(Tail(ss))

----------------------------------------------------------------------------
(* BucketManager.gen_etag *)

\* f.read(size) at offset pos: at most size bytes, b'' at end of file
Read(bytes, pos, size) == SubSeq(bytes, pos + 1, Min(Len(bytes), pos + size))

\* The `while True` loop of gen_etag: its body reads a chunk and breaks on an
\* empty read; nothing else is in the loop.  The value is `data` on exit.
RECURSIVE ReadLoop(_, _)
ReadLoop(bytes, pos) ==
    LET data == Read(bytes, pos, CHUNK_SIZE)
    IN  IF data = <<>> THEN data ELSE ReadLoop(bytes, pos + Len(data))

\* hashes after the `with` block: the append follows the loop, so it runs
\* once, with the data the loop ended on.
HashesOf(bytes) == <<hash_data(ReadLoop(bytes, 0))>>

EtagOfHashes(hashes) ==
    IF hashes = <<>> THEN None
    ELSE IF Len(hashes) = 1 THEN Quoted(hexdigest(hashes[1]))
    ELSE LET hash == hash_data(Concat([i \in 1 .. Len(hashes) |-> digest(hashes[i])]))
         IN  Quoted(hexdigest(hash) \o <<45>> \o Str(Len(hashes)))

gen_etag(bytes) == EtagOfHashes(HashesOf(bytes))

----------------------------------------------------------------------------
(* The reference fingerprint and the object store's ETag *)

\* the chunks of a file: CHUNK_SIZE bytes each, the last possibly shorter
RECURSIVE Chunks(_)
Chunks(bytes) ==
    IF bytes = <<>> THEN <<>>
    ELSE <<SubSeq(bytes, 1, Min(Len(bytes), CHUNK_SIZE))>>
         \o Chunks(SubSeq(bytes, Min(Len(bytes), CHUNK_SIZE) + 1, Len(bytes)))

\* ETag of a multipart object: md5 of the part digests, suffixed -N
MultipartETag(parts) ==
    Quoted(hexdigest(md5(Concat([i \in 1 .. Len(parts) |-> md5(parts[i])])))
           \o <<45>> \o Str(Len(parts)))

\* the fingerprint a file of N >= 1 chunks (or an empty file) should get
ReferenceETag(bytes) ==
    IF Len(Chunks(bytes)) <= 1 THEN Quoted(hexdigest(md5(bytes)))
    ELSE MultipartETag(Chunks(bytes))

\* The ETag the store gives an object uploaded under transfer_config:
\* below multipart_threshold a single put (plain md5), from the threshold on
\* a multipart upload in parts of multipart_chunksize.
StoreETag(bytes) ==
    IF Len(bytes) < CHUNK_SIZE THEN Quoted(hexdigest(md5(bytes)))
    ELSE MultipartETag(Chunks(bytes))

----------------------------------------------------------------------------
(* The local tree (pathlib) *)

\* Path(pathname).expanduser().resolve(): the components of the resolved root
Root == <<"home", "site">>

\* the paths that may exist under the root, as components relative to it
RelPaths == {<<"index.html">>, <<"sub">>, <<"sub", "a.html">>}

AbsPaths == {Root \o r : r \in RelPaths}

\* file contents in Spec: an empty file, a file of two chunks
Blobs == {<<>>, <<0, 1, 1>>}

\* "other" is a path that is neither a directory nor a regular file
Nodes == [kind : {"none", "dir", "other"}, data : {<<>>}]
         \cup [kind : {"file"}, data : Blobs]

Parent(path) == SubSeq(path, 1, Len(path) - 1)

\* what a path may be: a name with an extension is a file or (below the
\* root) a directory, a name without one a directory or a special file
KindsAt(p) ==
    IF p[Len(p)] = "sub" THEN {"none", "dir", "other"}
    ELSE IF Parent(p) = Root THEN {"none", "file"}
    ELSE {"none", "file", "dir"}

\* the trees: an entry exists only inside a directory
Trees == {t \in [AbsPaths -> Nodes] :
            \A p \in AbsPaths :
                /\ t[p].kind \in KindsAt(p)
                /\ t[p].kind # "none" =>
                     (Parent(p) = Root \/ t[Parent(p)].kind = "dir")}

is_dir(t, path) == t[path].kind = "dir"
is_file(t, path) == t[path].kind = "file"

\* target.iterdir(): the entries of a directory, as full paths
iterdir(t, target) == {p \in AbsPaths : Parent(p) = target /\ t[p].kind # "none"}

\* path.relative_to(root), for a path under root
relative_to(path, root) == SubSeq(path, Len(root) + 1, Len(path))

\* str() of a relative path: its components joined by the host separator
RECURSIVE PathStr(_, _)
PathStr(parts, s) ==
    IF Len(parts) <= 1 THEN parts
    ELSE <<Head(parts), s>> \o PathStr(Tail(parts), s)

\* str(path.relative_to(root)) as sync passes it for the key
KeyOf(path, s) == PathStr(relative_to(path, Root), s)

\* mimetypes.guess_type(key)[0] or 'text/plain': by the extension of the
\* key's last component
content_type(key) ==
    IF key # <<>> /\ key[Len(key)] \in {"index.html", "a.html"}
    THEN "text/html" ELSE "text/plain"

----------------------------------------------------------------------------
(* The object store (boto3) *)

BucketNames == {"site", "other"}

\* keys per page of list_objects_v2
PageSize == 2

EmptyMap == [k \in {} |-> <<>>]

MapPut(f, k, v) == [x \in DOMAIN f \cup {k} |-> IF x = k THEN v ELSE f[x]]

MapDel(f, k) == [x \in DOMAIN f \ {k} |-> f[x]]

\* the object a completed upload of `bytes` leaves under a key
ObjectOf(bytes, ctype) == [body |-> bytes, etag |-> StoreETag(bytes), ctype |-> ctype]

\* the keys of a bucket in listing order
RECURSIVE SetToSeq(_)
SetToSeq(S) ==
    IF S = {} THEN <<>>
    ELSE LET x == CHOOSE y \in S : TRUE IN <<x>> \o SetToSeq(S \ {x})

\* paginator.paginate(Bucket=name): the pages of the listing; an empty
\* bucket yields one page without 'Contents'
RECURSIVE PagesOf(_)
PagesOf(entries) ==
    IF Len(entries) <= PageSize THEN <<[Contents |-> entries]>>
    ELSE <<[Contents |-> SubSeq(entries, 1, PageSize)]>>
         \o PagesOf(SubSeq(entries, PageSize + 1, Len(entries)))

paginate(objects) ==
    LET keys == SetToSeq(DOMAIN objects)
        entries == [i \in 1 .. Len(keys) |-> [Key |-> keys[i], ETag |-> objects[keys[i]].etag]]
    IN  IF entries = <<>> THEN <<[KeyCount |-> 0]>> ELSE PagesOf(entries)

\* page.get('Contents', [])
PageContents(page) == IF "Contents" \in DOMAIN page THEN page.Contents ELSE <<>>

----------------------------------------------------------------------------
(* BucketManager.load_maifest *)

\* the inner loop: self.manifest[obj['Key']] = obj['ETag'] for a page
RECURSIVE LoadPage(_, _)
LoadPage(m, contents) ==
    IF contents = <<>> THEN m
    ELSE LoadPage(MapPut(m, Head(contents).Key, Head(contents).ETag), Tail(contents))

\* the outer loop over the first n pages, starting from self.manifest as it is
RECURSIVE LoadPages(_, _, _)
LoadPages(m, pages, n) ==
    IF n = 0 \/ pages = <<>> THEN m
    ELSE LoadPages(LoadPage(m, PageContents(Head(pages))), Tail(pages), n - 1)

\* load_maifest run to completion: every page
load_maifest(m, objects) == LoadPages(m, paginate(objects), Len(paginate(objects)))

\* self.manifest.get(key, '')
ManifestGet(m, key) == IF key \in DOMAIN m THEN m[key] ELSE <<>>

----------------------------------------------------------------------------
(* handle_directory: the recursion as a stack of frames, the running        *)
(* directory first.  A frame holds the entries its for loop has yet to      *)
(* take; iterdir's order is the file system's, so any of them may be next.  *)

Frame(t, target) == [target |-> target, todo |-> iterdir(t, target)]

\* the for loop of the running frame takes entry p
Take(stk, p) == <<[stk[1] EXCEPT !.todo = @ \ {p}]>> \o Tail(stk)

\* a frame whose loop is exhausted returns to its caller
RECURSIVE Unwind(_)
Unwind(stk) ==
    IF stk = <<>> THEN stk
    ELSE IF stk[1].todo = {} THEN Unwind(Tail(stk)) ELSE stk

\* handle_directory(path) for a directory entry: a new frame
Descend(t, stk, p) == Unwind(<<Frame(t, p)>> \o Take(stk, p))

\* the entry is done; the loop goes on
Advance(stk, p) == Unwind(Take(stk, p))

\* one invocation of upload_file, as the log keeps it
Call(path, key, called, raised) ==
    [path |-> path, key |-> key, called |-> called, raised |-> raised]

\* a slip in the comparison: a key the manifest lacks counts as a match
EtagsMatchAbsent(m, key, etag) == key \notin DOMAIN m \/ m[key] = etag

\* the comparison of BucketManager.upload_file: skip when it holds
EtagsMatch(m, key, etag) == ManifestGet(m, key) = etag

NoVisits == [p \in AbsPaths |-> 0]

----------------------------------------------------------------------------
(* Spec: the state after BucketManager.__init__, on some host with some tree *)

HashIdle == hfile = <<>> /\ hret = None /\ hpc = "off"
BucketIdle == owned = {} /\ policy = {} /\ website = {}
              /\ ret = [op |-> "none", name |-> "none", create |-> "none",
                        value |-> "none", raised |-> "none"]

\* the BucketManager after __init__, no command started, buckets empty
Fresh ==
    /\ store = [b \in BucketNames |-> EmptyMap]
    /\ manifest = EmptyMap
    /\ pc = "idle"
    /\ bucket = "none"
    /\ stack = <<>>
    /\ log = {}
    /\ visits = NoVisits
    /\ outcome = "none"
    /\ ops = 0
    /\ touched = FALSE
    /\ resync = FALSE
    /\ cmd = "none"

Init ==
    /\ sep \in {"/", "\\"}
    /\ fs \in Trees
    /\ Fresh
    /\ HashIdle
    /\ BucketIdle

\* what every step of a walk does once it knows the stack it leaves
Continue(stk) ==
    /\ stack' = stk
    /\ pc' = IF stk = <<>> THEN "idle" ELSE pc
    /\ outcome' = IF stk = <<>> THEN "returned" ELSE outcome

\* an exception leaves sync: every frame is unwound
Raise ==
    /\ stack' = <<>>
    /\ pc' = "idle"
    /\ outcome' = "raised"

\* BucketManager.sync up to the call of handle_directory(root): the manifest
\* is loaded from every page of the listing, then the walk starts.
SyncBegin(b) ==
    /\ pc = "idle"
    /\ ops < MaxOps
    /\ ops' = ops + 1
    /\ bucket' = b
    /\ cmd' = "lib"
    /\ manifest' = load_maifest(manifest, store[b])
    /\ resync' = (cmd = "lib" /\ bucket = b /\ outcome = "returned" /\ ~touched)
    /\ touched' = FALSE
    /\ log' = {}
    /\ visits' = NoVisits
    /\ stack' = Unwind(<<Frame(fs, Root)>>)
    /\ pc' = IF stack' = <<>> THEN "idle" ELSE "walking"
    /\ outcome' = IF stack' = <<>> THEN "returned" ELSE "none"
    /\ UNCHANGED <<hashVars, bucketVars, sep, fs, store>>

\* the listing raises after n pages were loaded: the error leaves sync
SyncListFails(b, n) ==
    /\ pc = "idle"
    /\ ops < MaxOps
    /\ n < Len(paginate(store[b]))
    /\ ops' = ops + 1
    /\ bucket' = b
    /\ cmd' = "lib"
    /\ manifest' = LoadPages(manifest, paginate(store[b]), n)
    /\ resync' = FALSE
    /\ touched' = FALSE
    /\ log' = {}
    /\ visits' = NoVisits
    /\ Raise
    /\ UNCHANGED <<hashVars, bucketVars, sep, fs, store>>

\* the loop takes a directory: handle_directory(path); is_file is false
WalkDir(p) ==
    /\ pc = "walking"
    /\ p \in stack[1].todo
    /\ is_dir(fs, p)
    /\ Continue(Descend(fs, stack, p))
    /\ UNCHANGED <<hashVars, bucketVars, sep, fs, store, manifest, bucket, log, visits, ops,
                   touched, resync, cmd>>

\* the loop takes an entry that is neither a directory nor a regular file
WalkOther(p) ==
    /\ pc = "walking"
    /\ p \in stack[1].todo
    /\ ~is_dir(fs, p) /\ ~is_file(fs, p)
    /\ Continue(Advance(stack, p))
    /\ UNCHANGED <<hashVars, bucketVars, sep, fs, store, manifest, bucket, log, visits, ops,
                   touched, resync, cmd>>

\* upload_file: open(path) or a read raises inside gen_etag
HashFails(p) ==
    /\ pc = "walking"
    /\ p \in stack[1].todo
    /\ is_file(fs, p)
    /\ log' = log \cup {Call(p, KeyOf(p, sep), FALSE, "hash")}
    /\ visits' = [visits EXCEPT ![p] = @ + 1]
    /\ Raise
    /\ UNCHANGED <<hashVars, bucketVars, sep, fs, store, manifest, bucket, ops, touched,
                   resync, cmd>>

\* upload_file: the manifest's ETag for the key equals gen_etag(path): return
SkipFile(p) ==
    /\ pc = "walking"
    /\ p \in stack[1].todo
    /\ is_file(fs, p)
    /\ EtagsMatch(manifest, KeyOf(p, sep), gen_etag(fs[p].data))
    /\ log' = log \cup {Call(p, KeyOf(p, sep), FALSE, "none")}
    /\ visits' = [visits EXCEPT ![p] = @ + 1]
    /\ Continue(Advance(stack, p))
    /\ UNCHANGED <<hashVars, bucketVars, sep, fs, store, manifest, bucket, ops, touched,
                   resync, cmd>>

\* a variant of upload_file that records the uploaded object's ETag in the
\* manifest
UploadFileRecording(p) ==
    /\ pc = "walking"
    /\ p \in stack[1].todo
    /\ is_file(fs, p)
    /\ ~(ManifestGet(manifest, KeyOf(p, sep)) = gen_etag(fs[p].data))
    /\ store' = [store EXCEPT ![bucket] =
                    MapPut(@, KeyOf(p, sep),
                           ObjectOf(fs[p].data, content_type(KeyOf(p, sep))))]
    /\ manifest' = MapPut(manifest, KeyOf(p, sep), StoreETag(fs[p].data))
    /\ log' = log \cup {Call(p, KeyOf(p, sep), TRUE, "none")}
    /\ visits' = [visits EXCEPT ![p] = @ + 1]
    /\ Continue(Advance(stack, p))
    /\ UNCHANGED <<hashVars, bucketVars, sep, fs, bucket, ops, touched,
                   resync, cmd>>

\* upload_file: the ETags differ and bucket.upload_file completes
UploadFile(p) ==
    /\ pc = "walking"
    /\ p \in stack[1].todo
    /\ is_file(fs, p)
    /\ ~EtagsMatch(manifest, KeyOf(p, sep), gen_etag(fs[p].data))
    /\ store' = [store EXCEPT ![bucket] =
                    MapPut(@, KeyOf(p, sep),
                           ObjectOf(fs[p].data, content_type(KeyOf(p, sep))))]
    /\ log' = log \cup {Call(p, KeyOf(p, sep), TRUE, "none")}
    /\ visits' = [visits EXCEPT ![p] = @ + 1]
    /\ Continue(Advance(stack, p))
    /\ UNCHANGED <<hashVars, bucketVars, sep, fs, manifest, bucket, ops, touched,
                   resync, cmd>>

\* a variant of sync that catches a failed upload and goes on with the walk
UploadFailsContinue(p) ==
    /\ pc = "walking"
    /\ p \in stack[1].todo
    /\ is_file(fs, p)
    /\ ~(ManifestGet(manifest, KeyOf(p, sep)) = gen_etag(fs[p].data))
    /\ log' = log \cup {Call(p, KeyOf(p, sep), TRUE, "upload")}
    /\ visits' = [visits EXCEPT ![p] = @ + 1]
    /\ Continue(Advance(stack, p))
    /\ UNCHANGED <<hashVars, bucketVars, sep, fs, store, manifest, bucket, ops,
                   touched, resync, cmd>>

\* upload_file: the ETags differ and bucket.upload_file raises
UploadFails(p) ==
    /\ pc = "walking"
    /\ p \in stack[1].todo
    /\ is_file(fs, p)
    /\ ~EtagsMatch(manifest, KeyOf(p, sep), gen_etag(fs[p].data))
    /\ log' = log \cup {Call(p, KeyOf(p, sep), TRUE, "upload")}
    /\ visits' = [visits EXCEPT ![p] = @ + 1]
    /\ Raise
    /\ UNCHANGED <<hashVars, bucketVars, sep, fs, store, manifest, bucket, ops, touched,
                   resync, cmd>>

----------------------------------------------------------------------------
(* The CLI command `sync` of webotron.py: its own walk and its own          *)
(* upload_file, on the module-level s3 resource.                            *)

\* sync(pathname, bucket) up to the call of handle_directory(root)
CliSyncBegin(b) ==
    /\ pc = "idle"
    /\ ops < MaxOps
    /\ ops' = ops + 1
    /\ bucket' = b
    /\ cmd' = "cli"
    /\ resync' = FALSE
    /\ touched' = FALSE
    /\ log' = {}
    /\ visits' = NoVisits
    /\ stack' = Unwind(<<Frame(fs, Root)>>)
    /\ pc' = IF stack' = <<>> THEN "idle" ELSE "cli_walking"
    /\ outcome' = IF stack' = <<>> THEN "returned" ELSE "none"
    /\ UNCHANGED <<hashVars, bucketVars, sep, fs, store, manifest>>

CliWalkDir(p) ==
    /\ pc = "cli_walking"
    /\ p \in stack[1].todo
    /\ is_dir(fs, p)
    /\ Continue(Descend(fs, stack, p))
    /\ UNCHANGED <<hashVars, bucketVars, sep, fs, store, manifest, bucket, log, visits, ops,
                   touched, resync, cmd>>

CliWalkOther(p) ==
    /\ pc = "cli_walking"
    /\ p \in stack[1].todo
    /\ ~is_dir(fs, p) /\ ~is_file(fs, p)
    /\ Continue(Advance(stack, p))
    /\ UNCHANGED <<hashVars, bucketVars, sep, fs, store, manifest, bucket, log, visits, ops,
                   touched, resync, cmd>>

\* upload_file(s3_bucket, path, key): s3_bucket.upload_file completes
CliUploadFile(p) ==
    /\ pc = "cli_walking"
    /\ p \in stack[1].todo
    /\ is_file(fs, p)
    /\ store' = [store EXCEPT ![bucket] =
                    MapPut(@, KeyOf(p, sep),
                           ObjectOf(fs[p].data, content_type(KeyOf(p, sep))))]
    /\ log' = log \cup {Call(p, KeyOf(p, sep), TRUE, "none")}
    /\ visits' = [visits EXCEPT ![p] = @ + 1]
    /\ Continue(Advance(stack, p))
    /\ UNCHANGED <<hashVars, bucketVars, sep, fs, manifest, bucket, ops, touched,
                   resync, cmd>>

\* upload_file(s3_bucket, path, key): s3_bucket.upload_file raises
CliUploadFails(p) ==
    /\ pc = "cli_walking"
    /\ p \in stack[1].todo
    /\ is_file(fs, p)
    /\ log' = log \cup {Call(p, KeyOf(p, sep), TRUE, "upload")}
    /\ visits' = [visits EXCEPT ![p] = @ + 1]
    /\ Raise
    /\ UNCHANGED <<hashVars, bucketVars, sep, fs, store, manifest, bucket, ops, touched,
                   resync, cmd>>

----------------------------------------------------------------------------
(* Other clients of the object store, between two commands *)

RemoteKeys == {KeyOf(p, sep) : p \in {q \in AbsPaths : "file" \in KindsAt(q)}}

\* what other clients store
RemoteBlobs == Blobs

RemotePut(b, k, body) ==
    /\ pc = "idle"
    /\ ops < MaxOps
    /\ ops' = ops + 1
    /\ store' = [store EXCEPT ![b] = MapPut(@, k, ObjectOf(body, content_type(k)))]
    /\ store' # store
    /\ touched' = TRUE
    /\ UNCHANGED <<hashVars, bucketVars, sep, fs, manifest, pc, bucket, stack, log, visits, outcome,
                   resync, cmd>>

RemoteDelete(b, k) ==
    /\ pc = "idle"
    /\ ops < MaxOps
    /\ k \in DOMAIN store[b]
    /\ ops' = ops + 1
    /\ store' = [store EXCEPT ![b] = MapDel(@, k)]
    /\ touched' = TRUE
    /\ UNCHANGED <<hashVars, bucketVars, sep, fs, manifest, pc, bucket, stack, log, visits, outcome,
                   resync, cmd>>

Next ==
    \/ \E b \in BucketNames : SyncBegin(b)
    \/ \E b \in BucketNames, n \in 0 .. Cardinality(RelPaths) : SyncListFails(b, n)
    \/ \E p \in AbsPaths : WalkDir(p)
    \/ \E p \in AbsPaths : WalkOther(p)
    \/ \E p \in AbsPaths : HashFails(p)
    \/ \E p \in AbsPaths : SkipFile(p)
    \/ \E p \in AbsPaths : UploadFile(p)
    \/ \E p \in AbsPaths : UploadFails(p)
    \/ \E b \in BucketNames : CliSyncBegin(b)
    \/ \E p \in AbsPaths : CliWalkDir(p)
    \/ \E p \in AbsPaths : CliWalkOther(p)
    \/ \E p \in AbsPaths : CliUploadFile(p)
    \/ \E p \in AbsPaths : CliUploadFails(p)
    \/ \E b \in BucketNames, k \in RemoteKeys, body \in RemoteBlobs : RemotePut(b, k, body)
    \/ \E b \in BucketNames, k \in RemoteKeys : RemoteDelete(b, k)

Spec == Init /\ [][Next]_vars

----------------------------------------------------------------------------
(* SpecHash: gen_etag applied to every file of at most MaxLen bytes *)

EmptyTree == [p \in AbsPaths |-> [kind |-> "none", data |-> <<>>]]

SyncIdle == sep = "/" /\ fs = EmptyTree /\ Fresh

InitHash ==
    /\ hfile \in SeqsUpTo(Byte, MaxLen)
    /\ hret = None
    /\ hpc = "ready"
    /\ SyncIdle
    /\ BucketIdle

\* gen_etag(path) returns
HashCall ==
    /\ hpc = "ready"
    /\ hret' = gen_etag(hfile)
    /\ hpc' = "done"
    /\ UNCHANGED <<hfile, syncVars, bucketVars>>

\* open(path, 'rb') or f.read raises: gen_etag returns nothing
HashRaises ==
    /\ hpc = "ready"
    /\ hpc' = "raised"
    /\ UNCHANGED <<hfile, hret, syncVars, bucketVars>>

NextHash == HashCall \/ HashRaises

SpecHash == InitHash /\ [][NextHash]_vars

----------------------------------------------------------------------------
(* SpecBucket: bucket lifecycle.  create_bucket, Policy().put and           *)
(* Website().put are requests whose outcome the service decides.            *)

\* ClientError codes other than the one init_bucket recovers from
OtherCodes == {"BucketAlreadyExists", "AccessDenied"}

\* what s3.create_bucket(Bucket=name, ...) may answer: for a bucket the
\* caller owns, BucketAlreadyOwnedByYou or (in the region that accepts the
\* repeated request) success
CreateOutcomes(name) ==
    IF name \in owned THEN {"ok", "BucketAlreadyOwnedByYou", "AccessDenied"}
    ELSE {"ok"} \cup OtherCodes

\* what a put on a bucket sub-resource may answer
PutOutcomes(name) ==
    IF name \in owned THEN {"ok", "AccessDenied"} ELSE {"NoSuchBucket", "AccessDenied"}

NoBucket == "None"

\* a variant of init_bucket without the except branch: every ClientError
\* of create_bucket leaves it
CreateOrFindStrict(name, out) ==
    IF out = "ok" THEN [value |-> name, raised |-> "none"]
    ELSE [value |-> NoBucket, raised |-> out]

\* init_bucket's try/except around create_bucket: the bucket it returns and
\* the error it raises, given create_bucket's outcome
CreateOrFind(name, out) ==
    IF out = "ok" THEN [value |-> name, raised |-> "none"]
    ELSE IF out = "BucketAlreadyOwnedByYou" THEN [value |-> name, raised |-> "none"]
    ELSE [value |-> NoBucket, raised |-> out]

Ret(op, name, create, value, raised) ==
    [op |-> op, name |-> name, create |-> create, value |-> value, raised |-> raised]

InitBucketSpec ==
    /\ owned = {} /\ policy = {} /\ website = {}
    /\ ret = Ret("none", "none", "none", "none", "none")
    /\ hfile = <<>> /\ hret = None /\ hpc = "off"
    /\ SyncIdle

\* BucketManager.init_bucket(bucket_name)
init_bucket(name, out) ==
    /\ out \in CreateOutcomes(name)
    /\ owned' = IF out = "ok" THEN owned \cup {name} ELSE owned
    /\ ret' = Ret("init_bucket", name, out,
                  CreateOrFind(name, out).value, CreateOrFind(name, out).raised)
    /\ UNCHANGED <<policy, website, syncVars, hashVars>>

\* BucketManager.set_policy(bucket)
set_policy(name, out) ==
    /\ out \in PutOutcomes(name)
    /\ policy' = IF out = "ok" THEN policy \cup {name} ELSE policy
    /\ ret' = Ret("set_policy", name, "none", NoBucket,
                  IF out = "ok" THEN "none" ELSE out)
    /\ UNCHANGED <<owned, website, syncVars, hashVars>>

\* BucketManager.configure_website(bucket)
configure_website(name, out) ==
    /\ out \in PutOutcomes(name)
    /\ website' = IF out = "ok" THEN website \cup {name} ELSE website
    /\ ret' = Ret("configure_website", name, "none", NoBucket,
                  IF out = "ok" THEN "none" ELSE out)
    /\ UNCHANGED <<owned, policy, syncVars, hashVars>>

\* the CLI command setup-bucket: create or find, then the policy, then the
\* website configuration; the first error ends the command
setup_bucket(name, out, polOut, webOut) ==
    /\ out \in CreateOutcomes(name)
    /\ polOut \in {"ok", "AccessDenied"}
    /\ webOut \in {"ok", "AccessDenied"}
    /\ LET found == CreateOrFind(name, out)
           created == found.raised = "none"
           polDone == created /\ polOut = "ok"
           webDone == polDone /\ webOut = "ok"
       IN  /\ owned' = IF out = "ok" THEN owned \cup {name} ELSE owned
           /\ policy' = IF polDone THEN policy \cup {name} ELSE policy
           /\ website' = IF webDone THEN website \cup {name} ELSE website
           /\ ret' = Ret("setup_bucket", name, out, found.value,
                         IF ~created THEN found.raised
                         ELSE IF ~polDone THEN polOut
                         ELSE IF ~webDone THEN webOut
                         ELSE "none")
    /\ UNCHANGED <<syncVars, hashVars>>

Codes == {"ok", "BucketAlreadyOwnedByYou", "NoSuchBucket"} \cup OtherCodes

NextBucket ==
    \/ \E name \in BucketNames, out \in Codes : init_bucket(name, out)
    \/ \E name \in BucketNames, out \in Codes : set_policy(name, out)
    \/ \E name \in BucketNames, out \in Codes : configure_website(name, out)
    \/ \E name \in BucketNames, out, polOut, webOut \in Codes :
            setup_bucket(name, out, polOut, webOut)

SpecBucket == InitBucketSpec /\ [][NextBucket]_vars

----------------------------------------------------------------------------
(* Properties *)

\* the key -> ETag mapping of a bucket's complete listing
ListingOf(objects) == [k \in DOMAIN objects |-> objects[k].etag]

Files == {p \in AbsPaths : is_file(fs, p)}

Failed == {c \in log : c.raised # "none"}

\* C1: Re-sync idempotence.  When BucketManager.sync of the same tree into
\* the same bucket repeats a sync that returned, with no local change and no
\* change of the bucket in between (so the listed ETags are the store's own
\* ETags of the uploaded contents), the second run makes no upload call.
C1_ResyncUploadsNothing ==
    (cmd = "lib" /\ resync) => \A c \in log : ~c.called

\* C2: Upload decision.  In a BucketManager.sync, every upload_file
\* invocation whose fingerprint was computed calls bucket.upload_file if and
\* only if the manifest's entry for the key (or '' when absent) differs from
\* gen_etag(path); a key absent from the manifest is always uploaded.
C2_UploadDecision ==
    cmd = "lib" =>
        \A c \in log :
            c.raised # "hash" =>
                /\ c.called <=> (ManifestGet(manifest, c.key) # gen_etag(fs[c.path].data))
                /\ c.key \notin DOMAIN manifest => c.called

\* C2 witness: one run has skipped a file whose manifest entry equals its
\* fingerprint and uploaded a file whose key the manifest lacks.
C2_Witness ==
    /\ cmd = "lib"
    /\ \E c, d \in log :
        /\ ~c.called /\ c.raised = "none" /\ c.key \in DOMAIN manifest
        /\ d.called /\ d.key \notin DOMAIN manifest

\* C3: Hasher reference equality.  For a file of N >= 1 chunks gen_etag
\* returns the reference fingerprint: the quoted hex md5 of the file when
\* N = 1, the quoted hex md5 of the concatenated chunk digests with -N when
\* N > 1.
C3_HashEqualsReference ==
    (hpc = "done" /\ Len(Chunks(hfile)) >= 1) => hret = ReferenceETag(hfile)

\* C4: Manifest built fresh per sync.  When a BucketManager.sync is about to
\* take its first upload decision, the manifest is exactly the key -> ETag
\* mapping of the target bucket's listing.
C4_ManifestFresh ==
    (pc = "walking" /\ log = {} /\ \E p \in stack[1].todo : is_file(fs, p))
        => manifest = ListingOf(store[bucket])

\* C5: Bucket-already-owned recovery.  init_bucket (and the create step of
\* the CLI's setup-bucket) yields the bucket of the given name without an
\* error of create_bucket when create_bucket succeeds or fails with
\* BucketAlreadyOwnedByYou; for any other error code it raises that error
\* and yields no bucket.
C5_BucketRecovery ==
    ret.op \in {"init_bucket", "setup_bucket"} =>
        IF ret.create \in {"ok", "BucketAlreadyOwnedByYou"}
        THEN /\ ret.value = ret.name
             /\ ret.op = "init_bucket" => ret.raised = "none"
             /\ ret.raised # ret.create
        ELSE ret.value = NoBucket /\ ret.raised = ret.create

\* C5 witness: init_bucket called for a bucket the caller already owns got
\* BucketAlreadyOwnedByYou from create_bucket and returned the bucket.
C5_Witness ==
    /\ ret.op = "init_bucket"
    /\ ret.name \in owned
    /\ ret.create = "BucketAlreadyOwnedByYou"
    /\ ret.value = ret.name
    /\ ret.raised = "none"

\* C6: Walk coverage and relative keys.  A sync (BucketManager.sync or the
\* CLI's) that returns has invoked upload_file exactly once for every regular
\* file and never for another path, each time with the file's path relative
\* to the root in '/'-separated components as the key; the keys of different
\* files differ and none holds a component of the root.
C6_WalkCoverage ==
    (cmd \in {"lib", "cli"} /\ outcome = "returned") =>
        /\ \A p \in AbsPaths : visits[p] = IF is_file(fs, p) THEN 1 ELSE 0
        /\ {c.path : c \in log} = Files
        /\ \A c \in log : c.key = PathStr(relative_to(c.path, Root), "/")
        /\ \A c, d \in log : c.key = d.key => c.path = d.path
        /\ \A c \in log : \A i \in 1 .. Len(c.key) : c.key[i] # Root[1]

\* C7: Abort on first failure.  Once a fingerprint computation or an upload
\* has raised in a BucketManager.sync, the sync has ended with that error
\* (the walk is not running, exactly one invocation failed), no file was
\* tried twice, and the objects uploaded earlier in the run are in the bucket.
C7_AbortOnFirstFailure ==
    cmd = "lib" =>
        /\ Failed # {} =>
            (pc = "idle" /\ outcome = "raised" /\ stack = <<>>
             /\ Cardinality(Failed) = 1)
        /\ \A p \in AbsPaths : visits[p] <= 1
        /\ (outcome = "raised" /\ ~touched) =>
              \A c \in log :
                  (c.called /\ c.raised = "none") =>
                      /\ c.key \in DOMAIN store[bucket]
                      /\ store[bucket][c.key].body = fs[c.path].data

\* C7 witness: a sync has ended with the error of a failed upload while a
\* regular file of the tree was not yet processed.
C7_Witness ==
    /\ cmd = "lib" /\ outcome = "raised" /\ pc = "idle"
    /\ \E c \in log : c.called /\ c.raised = "upload"
    /\ \E p \in Files : visits[p] = 0

\* C8: CLI sync control flow.  The CLI command sync does not upload a file
\* whose fingerprint equals the ETag the bucket lists for its key.
C8_CliSkipsMatching ==
    [][\A c \in log' \ log :
          (cmd' = "cli" /\ c.called) =>
              ManifestGet(ListingOf(store[bucket']), c.key) # gen_etag(fs[c.path].data)]_vars

\* C9: The manifest is populated once and then only read.  The manifest
\* changes only in the step of BucketManager.sync that loads it, which is
\* taken while no walk runs and before any upload_file invocation of the
\* run; no step of the walk (skip, upload, failure) changes it.
C9_ManifestReadOnly ==
    [][manifest' # manifest =>
          (pc = "idle" /\ cmd' = "lib" /\ log' = {} /\ visits' = NoVisits)]_vars

\* C9 witness: a sync has returned after uploading an object that was not
\* listed, and the manifest still has no entry for its key.
C9_Witness ==
    /\ cmd = "lib" /\ outcome = "returned"
    /\ \E c \in log : c.called /\ c.key \notin DOMAIN manifest
    /\ \E c \in log : ~c.called /\ c.key \in DOMAIN manifest

\* C10: No stale skip.  After a BucketManager.sync that returned, with no
\* change of the bucket by others since it began, the bucket holds for every
\* regular file an object under the file's key with the file's content.
C10_NoStaleSkip ==
    (cmd = "lib" /\ outcome = "returned" /\ ~touched) =>
        \A p \in Files :
            /\ KeyOf(p, sep) \in DOMAIN store[bucket]
            /\ store[bucket][KeyOf(p, sep)].body = fs[p].data

====
